---- MODULE Spec2Model ----
(***************************************************************************)
(* Request-execution logic of the OPT serving process (opt_serve.py):      *)
(* the four operations of OPTServer (loglikelihood, loglikelihood_rolling, *)
(* generate, greedy_until), the batches they build, the executor calls     *)
(* they make and the shared RNG state `sharded_rng` those calls thread.    *)
(*                                                                         *)
(* Text is a sequence of characters, a token array is a sequence of token  *)
(* ids, a batch is a record of such sequences (one row of the batch        *)
(* dimension).  The language model itself is external: what it returns is  *)
(* a nondeterministic choice, shaped the way the forward_* wrappers shape  *)
(* it.                                                                     *)
(***************************************************************************)
EXTENDS Integers, Sequences, FiniteSets, TLC

\* ------------------------------------------------------------------ bounds
MaxSeqLength == 3      \* FLAGS.seq_length ranges over 2..MaxSeqLength
MaxLen == 5            \* longest text handed to a scoring operation
MaxPrefix == 1         \* longest prefix text of a request
MaxMaxLength == 4      \* largest max_length of greedy_until
MaxStops == 2          \* most stop strings in one `until` list
MaxRequests == 2       \* requests handed in, one after the other or at once

\* ------------------------------------------------------- program constants
Seed == 42

\* --------------------------------------------------------------- tokenizer
EosText == "</s>"
PadText == "<pad>"
BosText == "<s>"

\* characters request texts are written in
Vocab == {"a", EosText}

bos_token_id == 0
pad_token_id == 1
eos_token_id == 2

\* the tokenizer's vocabulary: one token per character
TokenId(c) ==
    CASE c = BosText -> bos_token_id
      [] c = PadText -> pad_token_id
      [] c = EosText -> eos_token_id
      [] c = "a" -> 3

CharOf(tok) ==
    CASE tok = bos_token_id -> BosText
      [] tok = pad_token_id -> PadText
      [] tok = eos_token_id -> EosText
      [] tok = 3 -> "a"

\* tokenizer(text, padding=False, truncation=False): ids and attention mask
Encode(text) ==
    [input_ids |-> [k \in 1..Len(text) |-> TokenId(text[k])],
     attention_mask |-> [k \in 1..Len(text) |-> 1]]

\* tokenizer.batch_decode(output)[0]: special tokens are kept as text
Decode(tokens) == [k \in 1..Len(tokens) |-> CharOf(tokens[k])]

\* ----------------------------------------------------------- numpy helpers
Min(a, b) == IF a < b THEN a ELSE b
Max(a, b) == IF a > b THEN a ELSE b

\* a Python slice bound k on a sequence of length n
PyIndex(n, k) == IF k < 0 THEN Max(n + k, 0) ELSE Min(k, n)

\* s[lo:hi] with Python's negative and out-of-range bounds
Slice(s, lo, hi) ==
    LET a == PyIndex(Len(s), lo)
        b == PyIndex(Len(s), hi)
    IN  IF b <= a THEN << >> ELSE SubSeq(s, a + 1, b)

\* s[lo:]
SliceFrom(s, lo) == Slice(s, lo, Len(s))

\* s[:hi]
SliceTo(s, hi) == Slice(s, 0, hi)

\* np.full((1, n), v) / np.zeros((1, n)) / np.ones((1, n))
Full(n, v) == [k \in 1..n |-> v]

\* s[:hi] = v on a copy of s
SetTo(s, hi, v) ==
    LET b == PyIndex(Len(s), hi)
    IN  [k \in 1..Len(s) |-> IF k <= b THEN v ELSE s[k]]

RECURSIVE SumSeq(_)
SumSeq(s) == IF s = << >> THEN 0 ELSE s[1] + SumSeq(Tail(s))

\* prefix_tokenizer(text, padding="max_length", truncation=True, max_length=n):
\* truncation_side="left", padding_side="left"
LeftTokenizer(text, n) ==
    LET e == Encode(text)
        ids == IF Len(text) > n THEN SliceFrom(e.input_ids, Len(text) - n)
               ELSE e.input_ids
        am == IF Len(text) > n THEN SliceFrom(e.attention_mask, Len(text) - n)
              ELSE e.attention_mask
    IN  [input_ids |-> Full(n - Len(ids), pad_token_id) \o ids,
         attention_mask |-> Full(n - Len(am), 0) \o am]

\* tokenizer(text, padding="max_length", truncation=True, max_length=n):
\* truncation_side="right", padding_side="right"
RightTokenizer(text, n) ==
    LET e == Encode(text)
        ids == SliceTo(e.input_ids, n)
        am == SliceTo(e.attention_mask, n)
    IN  [input_ids |-> ids \o Full(n - Len(ids), pad_token_id),
         attention_mask |-> am \o Full(n - Len(am), 0)]

\* tokenizer(text, padding="longest", truncation=False) for one row of a
\* batch whose longest row has `longest` tokens
LongestTokenizer(text, longest) ==
    LET e == Encode(text)
    IN  [input_ids |-> e.input_ids \o Full(longest - Len(text), pad_token_id),
         attention_mask |-> e.attention_mask \o Full(longest - Len(text), 0)]

\* ------------------------------------------------------------------ strings
\* the start offsets (0-based) at which s occurs in text
Occurrences(s, text) ==
    {k \in 0..(Len(text) - Len(s)) : SubSeq(text, k + 1, k + Len(s)) = s}

\* s in text
Contains(s, text) == Occurrences(s, text) # {}

MinOf(S) == CHOOSE x \in S : \A y \in S : x <= y

\* SplitFirst with the separator left at the end of the part
SplitFirstKeepsSeparator(text, s) ==
    IF Contains(s, text)
    THEN SubSeq(text, 1, MinOf(Occurrences(s, text)) + Len(s))
    ELSE text

\* text.split(s, maxsplit=1)[0]
SplitFirst(text, s) ==
    IF Contains(s, text) THEN SubSeq(text, 1, MinOf(Occurrences(s, text)))
    ELSE text

\* ------------------------------------------------------------------- FLAGS
\* FLAGS.input_length, FLAGS.seq_length, FLAGS.loglikelihood_add_bos_token:
\* a prefix region and a non-empty continuation region inside the window
Configs ==
    {[input_length |-> I, seq_length |-> S, loglikelihood_add_bos_token |-> b] :
        I \in 1..MaxSeqLength, S \in 2..MaxSeqLength, b \in BOOLEAN}

ValidConfigs == {f \in Configs : f.input_length < f.seq_length}

\* ----------------------------------------------------------------- batches
NoBatch == [kind |-> "none"]

\* LoglikelihoodBatch with the prefix's attention mask left in output_mask
LoglikelihoodBatchScoresPrefix(flags, prefix_text, text) ==
    LET prefix == LeftTokenizer(prefix_text, flags.input_length)
        inputs == RightTokenizer(text, flags.seq_length - flags.input_length)
        output_tokens == prefix.input_ids \o inputs.input_ids
        input_tokens == << bos_token_id >> \o SliceTo(output_tokens, -1)
        input_mask == prefix.attention_mask \o inputs.attention_mask
        bos_mask == IF flags.loglikelihood_add_bos_token
                    THEN Full(Len(SliceTo(input_mask, 1)), 1)
                    ELSE Full(Len(SliceTo(input_mask, 1)), 0)
    IN  [kind |-> "score",
         input_tokens |-> input_tokens,
         output_tokens |-> output_tokens,
         input_mask |-> bos_mask \o SliceTo(input_mask, -1),
         output_mask |-> prefix.attention_mask \o inputs.attention_mask]

\* OPTServer.loglikelihood: the batch built from (prefix_text, text)
LoglikelihoodBatch(flags, prefix_text, text) ==
    LET prefix == LeftTokenizer(prefix_text, flags.input_length)
        inputs == RightTokenizer(text, flags.seq_length - flags.input_length)
        output_tokens == prefix.input_ids \o inputs.input_ids
        input_tokens == << bos_token_id >> \o SliceTo(output_tokens, -1)
        input_mask == prefix.attention_mask \o inputs.attention_mask
        bos_mask == IF flags.loglikelihood_add_bos_token
                    THEN Full(Len(SliceTo(input_mask, 1)), 1)
                    ELSE Full(Len(SliceTo(input_mask, 1)), 0)
    IN  [kind |-> "score",
         input_tokens |-> input_tokens,
         output_tokens |-> output_tokens,
         input_mask |-> bos_mask \o SliceTo(input_mask, -1),
         output_mask |-> Full(Len(prefix.attention_mask), 0) \o inputs.attention_mask]

\* RollingArrays without the padding of a row shorter than seq_length
RollingArraysUnpadded(flags, text, longest) ==
    LET inputs == LongestTokenizer(text, longest)
    IN  [output_tokens |-> inputs.input_ids,
         attention_mask |-> inputs.attention_mask,
         input_tokens |-> << bos_token_id >> \o SliceTo(inputs.input_ids, -1),
         total_seq_length |-> Len(inputs.input_ids)]

\* OPTServer.loglikelihood_rolling, before the window loop: the padded
\* arrays of one row of the batch
RollingArrays(flags, text, longest) ==
    LET inputs == LongestTokenizer(text, longest)
        short == Len(inputs.input_ids) < flags.seq_length
        padding_length == flags.seq_length - Len(inputs.input_ids)
        output_tokens == IF short
                         THEN inputs.input_ids \o Full(padding_length, pad_token_id)
                         ELSE inputs.input_ids
        attention_mask == IF short
                          THEN inputs.attention_mask \o Full(padding_length, 0)
                          ELSE inputs.attention_mask
    IN  [output_tokens |-> output_tokens,
         attention_mask |-> attention_mask,
         input_tokens |-> << bos_token_id >> \o SliceTo(output_tokens, -1),
         total_seq_length |-> Len(output_tokens)]

\* RollingWindow with the last window's output_mask left as the attention
\* mask: the overlap with the window before it is scored again
RollingWindowKeepsOverlap(flags, arr, i) ==
    LET S == flags.seq_length
    IN  IF i + S > arr.total_seq_length
        THEN [kind |-> "score",
              input_tokens |-> SliceFrom(arr.input_tokens, -S),
              output_tokens |-> SliceFrom(arr.output_tokens, -S),
              input_mask |-> SliceFrom(arr.attention_mask, -S),
              output_mask |-> SliceFrom(arr.attention_mask, -S)]
        ELSE [kind |-> "score",
              input_tokens |-> Slice(arr.input_tokens, i, i + S),
              output_tokens |-> Slice(arr.output_tokens, i, i + S),
              input_mask |-> Slice(arr.attention_mask, i, i + S),
              output_mask |-> Slice(arr.attention_mask, i, i + S)]

\* the batch of the window at offset i: the last window is right-aligned
\* and its output_mask is cleared on the positions before offset i
RollingWindow(flags, arr, i) ==
    LET S == flags.seq_length
    IN  IF i + S > arr.total_seq_length
        THEN [kind |-> "score",
              input_tokens |-> SliceFrom(arr.input_tokens, -S),
              output_tokens |-> SliceFrom(arr.output_tokens, -S),
              input_mask |-> SliceFrom(arr.attention_mask, -S),
              output_mask |-> SetTo(SliceFrom(arr.attention_mask, -S),
                                    i - arr.total_seq_length, 0)]
        ELSE [kind |-> "score",
              input_tokens |-> Slice(arr.input_tokens, i, i + S),
              output_tokens |-> Slice(arr.output_tokens, i, i + S),
              input_mask |-> Slice(arr.attention_mask, i, i + S),
              output_mask |-> Slice(arr.attention_mask, i, i + S)]

\* RangeHasNext with the end of the range included
RangeHasNextInclusive(i, total_seq_length, step) == i + step <= total_seq_length

\* the offsets range(0, total_seq_length, seq_length) still to come after i
RangeHasNext(i, total_seq_length, step) == i + step < total_seq_length

\* OPTServer.generate: the batch built from the prompt
GenerateBatch(flags, text) ==
    LET inputs == LeftTokenizer(text, flags.input_length)
    IN  [kind |-> "generate",
         input_tokens |-> inputs.input_ids,
         attention_mask |-> inputs.attention_mask]

\* GreedyUntilBatch with the oldest tokens of a long prefix kept
GreedyUntilBatchKeepsOldest(flags, pf) ==
    LET pf_tokens == Encode(pf)
        n == Len(pf_tokens.input_ids)
        extra == flags.input_length - n
    IN  [kind |-> "generate",
         input_tokens |->
             Full(extra, pad_token_id)
                 \o SliceTo(pf_tokens.input_ids, flags.input_length),
         attention_mask |->
             Full(extra, 0) \o SliceTo(pf_tokens.attention_mask, flags.input_length)]

\* OPTServer.greedy_until: the batch built from the current prefix pf
GreedyUntilBatch(flags, pf) ==
    LET pf_tokens == Encode(pf)
        n == Len(pf_tokens.input_ids)
        extra == flags.input_length - n
    IN  IF n < flags.input_length
        THEN [kind |-> "generate",
              input_tokens |-> Full(extra, pad_token_id) \o pf_tokens.input_ids,
              attention_mask |-> Full(extra, 0) \o pf_tokens.attention_mask]
        ELSE IF n > flags.input_length
        THEN [kind |-> "generate",
              input_tokens |-> SliceFrom(pf_tokens.input_ids, -flags.input_length),
              attention_mask |-> SliceFrom(pf_tokens.attention_mask, -flags.input_length)]
        ELSE [kind |-> "generate",
              input_tokens |-> pf_tokens.input_ids,
              attention_mask |-> pf_tokens.attention_mask]

\* ---------------------------------------------------------------- executor
\* rng_generator(): the RNG state an executor call returns for the state it
\* was given
NextRng(rng) == rng + 1

\* ForwardLoglikelihood with a flag that needs a scored position to match
ForwardLoglikelihoodNeedsMatch(rng, batch, hit) ==
    LET W == Len(batch.output_tokens)
        logp == [k \in 1..W |-> IF k \in hit THEN 0 ELSE -1]
        match == [k \in 1..W |-> IF k \in hit THEN 1 ELSE 0]
        loglikelihood == SumSeq([k \in 1..W |-> logp[k] * batch.output_mask[k]])
        match_count == SumSeq([k \in 1..W |-> match[k] * batch.output_mask[k]])
        total == SumSeq(batch.output_mask)
    IN  [loglikelihood |-> loglikelihood,
         is_greedy |-> (match_count = total /\ match_count > 0),
         rng |-> NextRng(rng)]

\* ForwardLoglikelihood handing back the RNG state it was given: scoring
\* is deterministic and draws nothing
ForwardLoglikelihoodKeepsRng(rng, batch, hit) ==
    LET W == Len(batch.output_tokens)
        logp == [k \in 1..W |-> IF k \in hit THEN 0 ELSE -1]
        match == [k \in 1..W |-> IF k \in hit THEN 1 ELSE 0]
        loglikelihood == SumSeq([k \in 1..W |-> logp[k] * batch.output_mask[k]])
        match_count == SumSeq([k \in 1..W |-> match[k] * batch.output_mask[k]])
        total == SumSeq(batch.output_mask)
    IN  [loglikelihood |-> loglikelihood,
         is_greedy |-> (match_count = total),
         rng |-> rng]

\* forward_loglikelihood on one row.  `hit` is what the language model
\* decides: the positions where its argmax equals the output token; its
\* log-probability of the output token is 0 there and -1 elsewhere.
ForwardLoglikelihood(rng, batch, hit) ==
    LET W == Len(batch.output_tokens)
        logp == [k \in 1..W |-> IF k \in hit THEN 0 ELSE -1]
        match == [k \in 1..W |-> IF k \in hit THEN 1 ELSE 0]
        loglikelihood == SumSeq([k \in 1..W |-> logp[k] * batch.output_mask[k]])
        match_count == SumSeq([k \in 1..W |-> match[k] * batch.output_mask[k]])
        total == SumSeq(batch.output_mask)
    IN  [loglikelihood |-> loglikelihood,
         is_greedy |-> (match_count = total),
         rng |-> NextRng(rng)]

\* the tokens the language model can emit
OutTokens == {TokenId(c) : c \in Vocab}

\* what hf_model.generate can append to an input of width w: sequences are
\* max_length = seq_length wide
Generations(flags, w) == [1..Max(flags.seq_length - w, 0) -> OutTokens]

\* ForwardGenerate without the cut: the input columns stay in the output
ForwardGenerateKeepsInput(rng, batch, gen) ==
    [output |-> batch.input_tokens \o gen, rng |-> NextRng(rng)]

\* forward_generate / forward_greedy_generate on one row: `gen` is what
\* the language model appends; the input columns are cut off the result
ForwardGenerate(rng, batch, gen) ==
    LET sequences == batch.input_tokens \o gen
    IN  [output |-> SliceFrom(sequences, Len(batch.input_tokens)),
         rng |-> NextRng(rng)]

\* ---------------------------------------------------------------- requests
Texts(n) == UNION {[1..k -> Vocab] : k \in 0..n}

\* the stop strings of greedy_until requests (non-empty)
StopStrings == {<<"a">>, <<EosText>>, <<"a", EosText>>, <<EosText, "a">>}

\* `until` is one string or a list of strings
Untils ==
    {[str |-> TRUE, val |-> s] : s \in StopStrings}
    \cup {[str |-> FALSE, val |-> l] :
            l \in UNION {[1..k -> StopStrings] : k \in 0..MaxStops}}

Request(op, prefix_text, text, longest, until, max_length) ==
    [op |-> op, prefix_text |-> prefix_text, text |-> text, longest |-> longest,
     until |-> until, max_length |-> max_length]

NoUntil == [str |-> FALSE, val |-> << >>]
NoRequest == Request("none", << >>, << >>, 0, NoUntil, 0)

LoglikelihoodRequests(prefixes, texts) ==
    {Request("loglikelihood", p, x, 0, NoUntil, 0) : p \in prefixes, x \in texts}

\* one row of a loglikelihood_rolling batch: the row is the longest of its
\* batch, or the batch has a longer row of `most` tokens
RollingRequests(texts, most) ==
    UNION {{Request("loglikelihood_rolling", << >>, x, n, NoUntil, 0) :
                n \in {Len(x), Max(Len(x), most)}} : x \in texts}

GenerateRequests(prefixes) ==
    {Request("generate", << >>, x, 0, NoUntil, 0) : x \in prefixes}

\* one (prefix, until) pair of a greedy_until request
GreedyUntilRequests(prefixes, untils, lengths) ==
    {Request("greedy_until", p, << >>, 0, u, m) :
        p \in prefixes, u \in untils, m \in lengths}

FullRequests ==
    LoglikelihoodRequests(Texts(MaxPrefix), Texts(MaxSeqLength))
    \cup RollingRequests(Texts(MaxLen), MaxLen)
    \cup GenerateRequests(Texts(MaxPrefix))
    \cup GreedyUntilRequests(Texts(MaxPrefix), Untils, 0..MaxMaxLength)

\* the requests of the concurrent front end: one text per operation
LightRequests ==
    LoglikelihoodRequests({<<"a">>}, {<<"a">>})
    \cup RollingRequests({<<"a", "a", "a">>}, 0)
    \cup GenerateRequests({<<"a">>})
    \cup GreedyUntilRequests({<<"a">>}, {[str |-> TRUE, val |-> <<EosText>>]}, {2})

\* -------------------------------------------------------------------- state
VARIABLES
    FLAGS,          \* the configuration, fixed at start
    threads,        \* the request-handling threads of the front end
    load,           \* which requests the front end hands in
    budget,         \* requests the front end still hands in
    sharded_rng,    \* the shared RNG state (nonlocal in every operation)
    pc,             \* per thread: where in its operation it is
    req,            \* per thread: the request being served (or served last)
    local,          \* per thread: the local variables of the operation
    ret,            \* per thread: what the operation returned
    reads,          \* history: the RNG states executor calls were given
    writes,         \* history: the RNG states stored into sharded_rng
    raised          \* history: the executor calls that raised

vars ==
    <<FLAGS, threads, load, budget, sharded_rng, pc, req, local, ret, reads,
      writes, raised>>

Threads == {1, 2}

Workload == IF load = "full" THEN FullRequests ELSE LightRequests

NoArrays ==
    [output_tokens |-> << >>, attention_mask |-> << >>, input_tokens |-> << >>,
     total_seq_length |-> 0]

\* the locals of an operation at entry
FreshLocal ==
    [rng |-> 0,                      \* the sharded_rng value the call was given
     batch |-> NoBatch,
     arr |-> NoArrays,               \* loglikelihood_rolling: the padded arrays
     i |-> 0,                        \* loglikelihood_rolling: window offset
     total_loglikelihood |-> 0,
     total_is_greedy |-> TRUE,
     pf |-> << >>,                   \* greedy_until: the current prefix
     ut |-> << >>,                   \* greedy_until: the list of stop strings
     total_length |-> 0,
     total_generated |-> << >>,
     calls |-> 0,                    \* history: executor calls of this request
     outputs |-> << >>,              \* history: what the calls returned, in order
     results |-> << >>,              \* history: the scores of the windows
     cover |-> << >>]                \* history: per position, windows scoring it

NoReturn == [kind |-> "none"]

InitCommon ==
    /\ FLAGS \in ValidConfigs
    /\ sharded_rng = NextRng(Seed)
    /\ pc = [t \in Threads |-> "idle"]
    /\ req = [t \in Threads |-> NoRequest]
    /\ local = [t \in Threads |-> FreshLocal]
    /\ ret = [t \in Threads |-> NoReturn]
    /\ reads = << >>
    /\ writes = << >>
    /\ raised = 0

\* one thread serving one request: a serialized execution
Init ==
    /\ InitCommon
    /\ threads = {1}
    /\ load = "full"
    /\ budget = 1

\* one thread serving several requests, one after the other
InitSerial ==
    /\ InitCommon
    /\ threads = {1}
    /\ load = "light"
    /\ budget = MaxRequests

\* two threads of the front end serving requests at the same time
InitConcurrent ==
    /\ InitCommon
    /\ threads = Threads
    /\ load = "light"
    /\ budget = MaxRequests

\* a thread is free and the front end has a request for it
CanAccept(t) ==
    /\ t \in threads
    /\ pc[t] = "idle"
    /\ budget > 0

\* a thread takes request r
Accept(t, r) ==
    /\ budget' = budget - 1
    /\ req' = [req EXCEPT ![t] = r]

\* the executor is handed the current sharded_rng
ReadRng(t) == reads' = Append(reads, sharded_rng)

\* the RNG state a call returned is assigned to sharded_rng
StoreRng(rng) ==
    /\ sharded_rng' = rng
    /\ writes' = Append(writes, rng)

\* the failure of an executor call reported to the caller of the operation
RaiseReturn == [kind |-> "raise"]

\* Raise with the RNG state advanced although the call failed
RaiseAdvancesRng(t) ==
    /\ pc' = [pc EXCEPT ![t] = "idle"]
    /\ ret' = [ret EXCEPT ![t] = RaiseReturn]
    /\ raised' = raised + 1
    /\ StoreRng(NextRng(local[t].rng))
    /\ UNCHANGED <<FLAGS, threads, load, budget, req, local, reads>>

\* an executor call raises: the assignment of its results never happens and,
\* no operation catching anything, the exception leaves the operation
Raise(t) ==
    /\ pc' = [pc EXCEPT ![t] = "idle"]
    /\ ret' = [ret EXCEPT ![t] = RaiseReturn]
    /\ raised' = raised + 1
    /\ UNCHANGED <<FLAGS, threads, load, budget, sharded_rng, req, local, reads,
                   writes>>

\* --------------------------------------------------- OPTServer.loglikelihood
\* build the batch and call forward_loglikelihood(params, sharded_rng, batch)
Loglikelihood(t) ==
    /\ CanAccept(t)
    /\ \E r \in Workload :
        /\ r.op = "loglikelihood"
        /\ Accept(t, r)
        /\ ReadRng(t)
        /\ local' = [local EXCEPT ![t] =
               [FreshLocal EXCEPT
                   !.rng = sharded_rng,
                   !.batch = LoglikelihoodBatch(FLAGS, r.prefix_text, r.text),
                   !.calls = 1]]
        /\ pc' = [pc EXCEPT ![t] = "loglikelihood"]
        /\ ret' = [ret EXCEPT ![t] = NoReturn]
        /\ UNCHANGED <<FLAGS, threads, load, sharded_rng, writes, raised>>

\* the call returns: sharded_rng is replaced, the scores are returned
LoglikelihoodReturn(t) ==
    /\ t \in threads
    /\ pc[t] = "loglikelihood"
    /\ \E hit \in SUBSET (1..FLAGS.seq_length) :
        LET res == ForwardLoglikelihood(local[t].rng, local[t].batch, hit)
        IN  /\ StoreRng(res.rng)
            /\ ret' = [ret EXCEPT ![t] =
                   [kind |-> "score", loglikelihood |-> res.loglikelihood,
                    is_greedy |-> res.is_greedy]]
    /\ pc' = [pc EXCEPT ![t] = "idle"]
    /\ UNCHANGED <<FLAGS, threads, load, budget, req, local, reads, raised>>

\* forward_loglikelihood raises
LoglikelihoodRaise(t) ==
    /\ t \in threads
    /\ pc[t] = "loglikelihood"
    /\ Raise(t)

\* ------------------------------------------- OPTServer.loglikelihood_rolling
\* tokenize, pad to seq_length, shift: everything before the window loop
LoglikelihoodRolling(t) ==
    /\ CanAccept(t)
    /\ \E r \in Workload :
        /\ r.op = "loglikelihood_rolling"
        /\ Accept(t, r)
        /\ LET arr == RollingArrays(FLAGS, r.text, r.longest)
           IN  local' = [local EXCEPT ![t] =
                   [FreshLocal EXCEPT
                       !.arr = arr,
                       !.cover = Full(arr.total_seq_length, 0)]]
        /\ pc' = [pc EXCEPT ![t] = "rolling_window"]
        /\ ret' = [ret EXCEPT ![t] = NoReturn]
        /\ UNCHANGED <<FLAGS, threads, load, sharded_rng, reads, writes, raised>>

\* where in the padded arrays the window at offset i starts
WindowStart(flags, arr, i) ==
    IF i + flags.seq_length > arr.total_seq_length
    THEN PyIndex(arr.total_seq_length, -flags.seq_length)
    ELSE i

\* one more window is scored by every position its output_mask sets
Covered(cover, start, output_mask) ==
    [p \in 1..Len(cover) |->
        IF p > start /\ p - start <= Len(output_mask)
        THEN cover[p] + output_mask[p - start]
        ELSE cover[p]]

\* one iteration of the window loop up to the executor call
RollingWindowCall(t) ==
    /\ t \in threads
    /\ pc[t] = "rolling_window"
    /\ ReadRng(t)
    /\ LET l == local[t]
           batch == RollingWindow(FLAGS, l.arr, l.i)
       IN  local' = [local EXCEPT ![t] =
               [l EXCEPT
                   !.rng = sharded_rng,
                   !.batch = batch,
                   !.calls = @ + 1,
                   !.cover = Covered(@, WindowStart(FLAGS, l.arr, l.i),
                                     batch.output_mask)]]
    /\ pc' = [pc EXCEPT ![t] = "rolling_call"]
    /\ UNCHANGED <<FLAGS, threads, load, budget, sharded_rng, req, ret, writes, raised>>

\* LogicalAnd with the flag of the latest window taken alone
LogicalAndLatestOnly(is_greedy, total_is_greedy) == is_greedy

\* np.logical_and(is_greedy, total_is_greedy)
LogicalAnd(is_greedy, total_is_greedy) == is_greedy /\ total_is_greedy

\* the call returns: sharded_rng is replaced, the totals are updated, and
\* the loop goes on to the next offset or the operation returns
RollingWindowReturn(t) ==
    /\ t \in threads
    /\ pc[t] = "rolling_call"
    /\ \E hit \in SUBSET (1..FLAGS.seq_length) :
        LET l == local[t]
            res == ForwardLoglikelihood(l.rng, l.batch, hit)
            total_loglikelihood == l.total_loglikelihood + res.loglikelihood
            total_is_greedy == LogicalAnd(res.is_greedy, l.total_is_greedy)
            results == Append(l.results, [loglikelihood |-> res.loglikelihood,
                                          is_greedy |-> res.is_greedy])
        IN  /\ StoreRng(res.rng)
            /\ IF RangeHasNext(l.i, l.arr.total_seq_length, FLAGS.seq_length)
               THEN /\ local' = [local EXCEPT ![t] =
                           [l EXCEPT
                               !.i = @ + FLAGS.seq_length,
                               !.total_loglikelihood = total_loglikelihood,
                               !.total_is_greedy = total_is_greedy,
                               !.results = results]]
                    /\ pc' = [pc EXCEPT ![t] = "rolling_window"]
                    /\ UNCHANGED ret
               ELSE /\ local' = [local EXCEPT ![t] =
                           [l EXCEPT
                               !.total_loglikelihood = total_loglikelihood,
                               !.total_is_greedy = total_is_greedy,
                               !.results = results]]
                    /\ pc' = [pc EXCEPT ![t] = "idle"]
                    /\ ret' = [ret EXCEPT ![t] =
                           [kind |-> "score",
                            loglikelihood |-> total_loglikelihood,
                            is_greedy |-> total_is_greedy]]
    /\ UNCHANGED <<FLAGS, threads, load, budget, req, reads, raised>>

\* forward_loglikelihood raises for a window: the loop is left, the windows
\* after it are never scored
RollingWindowRaise(t) ==
    /\ t \in threads
    /\ pc[t] = "rolling_call"
    /\ Raise(t)

\* -------------------------------------------------------- OPTServer.generate
\* build the batch and call forward_generate(params, sharded_rng, batch)
Generate(t) ==
    /\ CanAccept(t)
    /\ \E r \in Workload :
        /\ r.op = "generate"
        /\ Accept(t, r)
        /\ ReadRng(t)
        /\ local' = [local EXCEPT ![t] =
               [FreshLocal EXCEPT
                   !.rng = sharded_rng,
                   !.batch = GenerateBatch(FLAGS, r.text),
                   !.calls = 1]]
        /\ pc' = [pc EXCEPT ![t] = "generate"]
        /\ ret' = [ret EXCEPT ![t] = NoReturn]
        /\ UNCHANGED <<FLAGS, threads, load, sharded_rng, writes, raised>>

\* the decoded output, cut at the first end-of-sequence marker
CutAtEos(text) ==
    IF Contains(<<EosText>>, text) THEN SplitFirst(text, <<EosText>>) ELSE text

\* the call returns: sharded_rng is replaced, the text is returned
GenerateReturn(t) ==
    /\ t \in threads
    /\ pc[t] = "generate"
    /\ \E gen \in Generations(FLAGS, Len(local[t].batch.input_tokens)) :
        LET res == ForwardGenerate(local[t].rng, local[t].batch, gen)
        IN  /\ StoreRng(res.rng)
            /\ ret' = [ret EXCEPT ![t] =
                   [kind |-> "text", text |-> CutAtEos(Decode(res.output))]]
    /\ pc' = [pc EXCEPT ![t] = "idle"]
    /\ UNCHANGED <<FLAGS, threads, load, budget, req, local, reads, raised>>

\* forward_generate raises
GenerateRaise(t) ==
    /\ t \in threads
    /\ pc[t] = "generate"
    /\ Raise(t)

\* ---------------------------------------------------- OPTServer.greedy_until
\* if isinstance(ut, str): ut = [ut]
StopList(until) == IF until.str THEN << until.val >> ELSE until.val

\* the scan of the stop strings, in list order, over the generated text
RECURSIVE StopScan(_, _)
StopScan(ut, total_generated) ==
    IF ut = << >> THEN [total_generated |-> total_generated, done |-> FALSE]
    ELSE LET s == Head(ut)
             found == Contains(s, total_generated)
             rest == StopScan(Tail(ut),
                              IF found THEN SplitFirst(total_generated, s)
                              ELSE total_generated)
         IN  [total_generated |-> rest.total_generated,
              done |-> found \/ rest.done]

\* LoopGoesOn with the bound itself still inside the loop
LoopGoesOnInclusive(total_length, max_length) == total_length <= max_length

\* while total_length < max_length
LoopGoesOn(total_length, max_length) == total_length < max_length

\* GreedyUntil with the generated text starting out as the prefix
GreedyUntilScansPrefix(t) ==
    /\ CanAccept(t)
    /\ \E r \in Workload :
        /\ r.op = "greedy_until"
        /\ Accept(t, r)
        /\ local' = [local EXCEPT ![t] =
               [FreshLocal EXCEPT !.pf = r.prefix_text, !.ut = StopList(r.until),
                                  !.total_generated = r.prefix_text]]
        /\ IF LoopGoesOn(0, r.max_length)
           THEN /\ pc' = [pc EXCEPT ![t] = "greedy_until_loop"]
                /\ ret' = [ret EXCEPT ![t] = NoReturn]
           ELSE /\ pc' = [pc EXCEPT ![t] = "idle"]
                /\ ret' = [ret EXCEPT ![t] = [kind |-> "text", text |-> << >>]]
        /\ UNCHANGED <<FLAGS, threads, load, sharded_rng, reads, writes, raised>>

\* one (prefix, until) pair: the locals are set up and the loop is entered,
\* or skipped when max_length is not positive
GreedyUntil(t) ==
    /\ CanAccept(t)
    /\ \E r \in Workload :
        /\ r.op = "greedy_until"
        /\ Accept(t, r)
        /\ local' = [local EXCEPT ![t] =
               [FreshLocal EXCEPT !.pf = r.prefix_text, !.ut = StopList(r.until)]]
        /\ IF LoopGoesOn(0, r.max_length)
           THEN /\ pc' = [pc EXCEPT ![t] = "greedy_until_loop"]
                /\ ret' = [ret EXCEPT ![t] = NoReturn]
           ELSE /\ pc' = [pc EXCEPT ![t] = "idle"]
                /\ ret' = [ret EXCEPT ![t] = [kind |-> "text", text |-> << >>]]
        /\ UNCHANGED <<FLAGS, threads, load, sharded_rng, reads, writes, raised>>

\* one iteration of the loop up to the executor call: the batch is built
\* from the current prefix and handed to forward_greedy_generate
GreedyUntilCall(t) ==
    /\ t \in threads
    /\ pc[t] = "greedy_until_loop"
    /\ ReadRng(t)
    /\ local' = [local EXCEPT ![t] =
           [@ EXCEPT
               !.rng = sharded_rng,
               !.batch = GreedyUntilBatch(FLAGS, local[t].pf),
               !.calls = @ + 1]]
    /\ pc' = [pc EXCEPT ![t] = "greedy_until_call"]
    /\ UNCHANGED <<FLAGS, threads, load, budget, sharded_rng, req, ret, writes, raised>>

\* the call returns: sharded_rng is replaced, the output is appended to the
\* generated text and to the prefix, the stop strings are scanned, and the
\* loop goes on or the pair's text is returned
GreedyUntilReturn(t) ==
    /\ t \in threads
    /\ pc[t] = "greedy_until_call"
    /\ \E gen \in Generations(FLAGS, Len(local[t].batch.input_tokens)) :
        LET l == local[t]
            res == ForwardGenerate(l.rng, l.batch, gen)
            total_length == l.total_length + Len(res.output)
            output_text == Decode(res.output)
            scan == StopScan(l.ut, l.total_generated \o output_text)
        IN  /\ StoreRng(res.rng)
            /\ local' = [local EXCEPT ![t] =
                   [l EXCEPT
                       !.total_length = total_length,
                       !.total_generated = scan.total_generated,
                       !.pf = @ \o output_text,
                       !.outputs = Append(@, res.output)]]
            /\ IF ~scan.done /\ LoopGoesOn(total_length, req[t].max_length)
               THEN /\ pc' = [pc EXCEPT ![t] = "greedy_until_loop"]
                    /\ UNCHANGED ret
               ELSE /\ pc' = [pc EXCEPT ![t] = "idle"]
                    /\ ret' = [ret EXCEPT ![t] =
                           [kind |-> "text", text |-> scan.total_generated]]
    /\ UNCHANGED <<FLAGS, threads, load, budget, req, reads, raised>>

\* forward_greedy_generate raises: the loop is left, nothing is returned
GreedyUntilRaise(t) ==
    /\ t \in threads
    /\ pc[t] = "greedy_until_call"
    /\ Raise(t)

\* ------------------------------------------------------------ specification
Next ==
    \E t \in Threads :
        \/ Loglikelihood(t)
        \/ LoglikelihoodReturn(t)
        \/ LoglikelihoodRolling(t)
        \/ RollingWindowCall(t)
        \/ RollingWindowReturn(t)
        \/ Generate(t)
        \/ GenerateReturn(t)
        \/ GreedyUntil(t)
        \/ GreedyUntilCall(t)
        \/ GreedyUntilReturn(t)
        \/ LoglikelihoodRaise(t)
        \/ RollingWindowRaise(t)
        \/ GenerateRaise(t)
        \/ GreedyUntilRaise(t)

\* a serialized execution: one thread, one request at a time
Spec == Init /\ [][Next]_vars

\* a serialized execution of a sequence of requests
SerialSpec == InitSerial /\ [][Next]_vars

\* the multi-threaded front end: two threads inside operations at once
ConcurrentSpec == InitConcurrent /\ [][Next]_vars

\* ------------------------------------------------------------------- claims
Ceil(a, b) == (a + b - 1) \div b

\* a thread is between reading sharded_rng and storing its successor
InExecutorCall(t) ==
    pc[t] \in {"loglikelihood", "rolling_call", "generate", "greedy_until_call"}

\* a thread's operation has returned
Returned(t, op) ==
    req[t].op = op /\ pc[t] = "idle" /\ ret[t].kind \in {"score", "text"}

\* a thread's operation was left by the exception of an executor call
Raised(t) == pc[t] = "idle" /\ ret[t] = RaiseReturn

\* C1: under concurrent invocation no two executor calls are given the same
\* value of sharded_rng: every call is given the state the call before it
\* returned, and a value once given to a call is never given to another
\* (as long as no call has failed: a failed call leaves its value behind).
C1_RngNeverReused ==
    raised = 0 =>
        /\ \A j, k \in 1..Len(reads) : j # k => reads[j] # reads[k]
        /\ \A k \in 1..(Len(reads) - 1) : reads[k + 1] = NextRng(reads[k])

\* C2: the section from reading sharded_rng to storing its successor is
\* mutually exclusive: at most one thread is inside it at any time.
C2_ExecutorSectionExclusive ==
    Cardinality({t \in threads : InExecutorCall(t)}) <= 1

\* C3: for a sequence longer than seq_length the output masks of the
\* windows of loglikelihood_rolling, taken together, set every token
\* position exactly once: no position is scored twice while the loop runs,
\* and when it has returned every token position has been scored once (and
\* no padding position), so the coverage sums to the sequence length.
C3_MaskCoversEachTokenOnce ==
    \A t \in threads :
        (req[t].op = "loglikelihood_rolling"
         /\ Len(req[t].text) > FLAGS.seq_length) =>
            LET cover == local[t].cover
                n == Len(req[t].text)
            IN  /\ \A p \in 1..Len(cover) : cover[p] <= 1
                /\ Returned(t, "loglikelihood_rolling") =>
                       /\ Len(cover) >= n
                       /\ \A p \in 1..Len(cover) :
                              cover[p] = IF p <= n THEN 1 ELSE 0
                       /\ SumSeq(cover) = n

\* C3 happens: a sequence split into two windows, the second one
\* right-aligned and overlapping the first, has been scored
C3_Witness ==
    \E t \in threads :
        /\ Returned(t, "loglikelihood_rolling")
        /\ Len(req[t].text) > FLAGS.seq_length
        /\ Len(req[t].text) < 2 * FLAGS.seq_length
        /\ local[t].calls = 2

\* C4: for a sequence no longer than seq_length, loglikelihood_rolling
\* makes one executor call, and the batch it hands over is the batch
\* loglikelihood builds for the same sequence (for some division of the
\* sequence into prefix and continuation).
C4_RollingBatchIsLoglikelihoodBatch ==
    \A t \in threads :
        (req[t].op = "loglikelihood_rolling"
         /\ req[t].longest = Len(req[t].text)
         /\ Len(req[t].text) <= FLAGS.seq_length
         /\ pc[t] = "rolling_call") =>
            /\ local[t].calls = 1
            /\ ~RangeHasNext(local[t].i, local[t].arr.total_seq_length,
                             FLAGS.seq_length)
            /\ \E k \in 0..Len(req[t].text) :
                   local[t].batch =
                       LoglikelihoodBatch(FLAGS, SliceTo(req[t].text, k),
                                          SliceFrom(req[t].text, k))

\* the text the loop of greedy_until has generated so far, untruncated:
\* the current prefix without the original prefix
Accumulated(t) == SliceFrom(local[t].pf, Len(req[t].prefix_text))

\* the earliest offset at which any of the stop strings occurs in text
EarliestStop(ut, text) ==
    MinOf(UNION {Occurrences(ut[k], text) : k \in 1..Len(ut)})

AnyStopOccurs(ut, text) == \E k \in 1..Len(ut) : Contains(ut[k], text)

\* C5: when some stop string occurs in the accumulated generated text,
\* greedy_until returns exactly the part of that text before the earliest
\* start offset of any stop string, whatever the order of the list.
C5_CutAtEarliestStop ==
    \A t \in threads :
        (Returned(t, "greedy_until")
         /\ AnyStopOccurs(local[t].ut, Accumulated(t))) =>
            ret[t].text =
                SliceTo(Accumulated(t), EarliestStop(local[t].ut, Accumulated(t)))

\* C6: when no stop string occurs, the text greedy_until returns is made of
\* at most max_length generated tokens.
C6_LengthBound ==
    \A t \in threads :
        (Returned(t, "greedy_until")
         /\ ~AnyStopOccurs(local[t].ut, Accumulated(t))) =>
            /\ local[t].total_length <= Max(req[t].max_length, 0)
            /\ Len(Encode(ret[t].text).input_ids) <= Max(req[t].max_length, 0)

\* the tokens forward_greedy_generate returns per call
PerCall == FLAGS.seq_length - FLAGS.input_length

\* the executor calls of the running request that have returned
CompletedCalls(t) ==
    IF InExecutorCall(t) \/ Raised(t) THEN local[t].calls - 1
    ELSE local[t].calls

\* C7: the loop of greedy_until for one pair terminates, after at most
\* ceil(max_length / N) executor calls, N = seq_length - input_length being
\* the tokens a call returns: each call adds N >= 1 tokens, the number of
\* calls never exceeds the bound, another iteration is entered only while
\* fewer calls than the bound have been made, and every call in flight
\* returns (whatever the model generates) with exactly N tokens, unless it
\* raises, which ends the loop as well.
C7_GreedyUntilTerminates ==
    \A t \in threads :
        req[t].op = "greedy_until" =>
            LET most == Ceil(Max(req[t].max_length, 0), PerCall)
            IN  /\ PerCall >= 1
                /\ local[t].calls <= most
                /\ local[t].total_length = PerCall * CompletedCalls(t)
                /\ pc[t] \in {"idle", "greedy_until_loop", "greedy_until_call"}
                /\ pc[t] = "idle" => Returned(t, "greedy_until") \/ Raised(t)
                /\ pc[t] = "greedy_until_loop" => local[t].calls < most
                /\ pc[t] = "greedy_until_call" =>
                       LET gens == Generations(FLAGS, Len(local[t].batch.input_tokens))
                       IN  /\ gens # {}
                           /\ \A gen \in gens :
                                  Len(ForwardGenerate(local[t].rng, local[t].batch,
                                                      gen).output) = PerCall

\* C7 happens: a loop that needed several calls and used up its bound
C7_Witness ==
    \E t \in threads :
        /\ Returned(t, "greedy_until")
        /\ local[t].calls >= 2
        /\ req[t].max_length % PerCall # 0
        /\ local[t].calls = Ceil(req[t].max_length, PerCall)

\* C8: with an empty stop list the loop stops on length alone: it makes
\* ceil(max_length / N) calls, and for max_length = N*k exactly k calls,
\* and returns the decoded outputs of all of them, N*k tokens, uncut.
C8_EmptyStopSetRunsToLength ==
    \A t \in threads :
        (Returned(t, "greedy_until") /\ local[t].ut = << >>) =>
            LET m == Max(req[t].max_length, 0)
            IN  /\ local[t].calls = Ceil(m, PerCall)
                /\ ret[t].text = Accumulated(t)
                /\ Len(Encode(ret[t].text).input_ids) = PerCall * local[t].calls
                /\ m % PerCall = 0 =>
                       /\ local[t].calls * PerCall = m
                       /\ local[t].total_length = m
                       /\ Len(Encode(ret[t].text).input_ids) = m

\* C8 happens: max_length = N*k with k >= 2 and no stop string
C8_Witness ==
    \E t \in threads :
        /\ Returned(t, "greedy_until")
        /\ local[t].ut = << >>
        /\ req[t].max_length % PerCall = 0
        /\ req[t].max_length >= 2 * PerCall
        /\ Len(ret[t].text) = req[t].max_length

\* the 40-token text of the scenario, scored with seq_length = 16
ScenarioFlags ==
    [input_length |-> 8, seq_length |-> 16, loglikelihood_add_bos_token |-> FALSE]
ScenarioArrays == RollingArrays(ScenarioFlags, [k \in 1..40 |-> "a"], 40)

\* the window offsets range(0, 40, 16) and the third window's output_mask
ScenarioThreeWindows ==
    /\ RangeHasNext(0, ScenarioArrays.total_seq_length, 16)
    /\ RangeHasNext(16, ScenarioArrays.total_seq_length, 16)
    /\ ~RangeHasNext(32, ScenarioArrays.total_seq_length, 16)
    /\ WindowStart(ScenarioFlags, ScenarioArrays, 32) = 24
    /\ RollingWindow(ScenarioFlags, ScenarioArrays, 32).output_mask =
           Full(8, 0) \o Full(8, 1)

\* C9: for a sequence of L > seq_length tokens loglikelihood_rolling calls
\* the executor ceil(L / seq_length) times, at offsets 0, seq_length, ...;
\* a final window that would run past the end holds the last seq_length
\* tokens and its output_mask is 0 on exactly the leading positions the
\* window before it scored (L = 40, seq_length = 16: three calls, the
\* third mask 0 on its first 8 positions).
C9_WindowsAndLastMask ==
    /\ ScenarioThreeWindows
    /\ \A t \in threads :
        (req[t].op = "loglikelihood_rolling"
         /\ req[t].longest = Len(req[t].text)
         /\ Len(req[t].text) > FLAGS.seq_length) =>
            LET l == local[t]
                L == Len(req[t].text)
                S == FLAGS.seq_length
                seen == S - (L - l.i)
            IN  /\ l.i = S * (IF pc[t] = "rolling_window" THEN l.calls
                              ELSE l.calls - 1)
                /\ l.calls <= Ceil(L, S)
                /\ Returned(t, "loglikelihood_rolling") => l.calls = Ceil(L, S)
                /\ (pc[t] = "rolling_call" /\ l.i + S <= L) =>
                       /\ l.batch.output_tokens = SubSeq(l.arr.output_tokens, l.i + 1, l.i + S)
                       /\ l.batch.output_mask = Full(S, 1)
                /\ (pc[t] = "rolling_call" /\ l.i + S > L) =>
                       /\ L % S # 0
                       /\ l.batch.output_tokens = SubSeq(l.arr.output_tokens, L - S + 1, L)
                       /\ l.batch.input_tokens = SubSeq(l.arr.input_tokens, L - S + 1, L)
                       /\ l.batch.output_mask = Full(seen, 0) \o Full(S - seen, 1)

\* C9 happens: three windows, the third right-aligned over a shorter tail
C9_Witness ==
    \E t \in threads :
        /\ Returned(t, "loglikelihood_rolling")
        /\ req[t].longest = Len(req[t].text)
        /\ Len(req[t].text) % FLAGS.seq_length # 0
        /\ local[t].calls = 3
        /\ local[t].batch.output_mask[1] = 0

\* the executor calls of all requests so far that have returned
ReturnedCalls ==
    Len(reads) - raised - Cardinality({t \in threads : InExecutorCall(t)})

\* C11: when an executor call raises, the failure reaches the caller of the
\* operation and nothing is retried (the thread is out of the operation,
\* the failed call is the last one the executor was given, a loop makes no
\* further call for the request), and the session state is unaffected:
\* sharded_rng still holds the value the failed call was given, it has been
\* replaced only by the calls that returned, and the call that follows is
\* given that same value. This holds for each of the four operations.
C11_FailureLeavesRngUnchanged ==
    /\ Len(writes) = ReturnedCalls
    /\ \A t \in threads :
        ret[t] = RaiseReturn =>
            /\ pc[t] = "idle"
            /\ req[t].op \in {"loglikelihood", "loglikelihood_rolling",
                               "generate", "greedy_until"}
            /\ local[t].calls >= 1
            /\ reads[Len(reads)] = local[t].rng
            /\ sharded_rng = local[t].rng
            /\ sharded_rng =
                   IF writes = << >> THEN NextRng(Seed) ELSE writes[Len(writes)]
    /\ \A t \in threads : InExecutorCall(t) => local[t].rng = sharded_rng
    /\ \A k \in 1..(Len(reads) - 1) :
           reads[k + 1] \in {reads[k], NextRng(reads[k])}

\* C11 happens: the second window of loglikelihood_rolling has raised after
\* the first one returned, in the request that follows a failed one
C11_Witness ==
    \E t \in threads :
        /\ Raised(t)
        /\ req[t].op = "loglikelihood_rolling"
        /\ local[t].calls = 2
        /\ raised = 2
        /\ Len(writes) = 1

\* (a): some stop string occurs in the text generated since the loop started
StopFound(t) == AnyStopOccurs(local[t].ut, Accumulated(t))

\* (b): the generated length has reached max_length
LengthReached(t) == local[t].total_length >= req[t].max_length

\* C12: the loop of greedy_until is terminal exactly when (a) some stop
\* string is a substring of the text all calls since the loop started have
\* generated, or (b) the generated length has reached max_length: while
\* neither holds the loop is running (about to call, or in a call), as soon
\* as one holds the pair has returned, and no executor call is made once
\* one holds. The text that counts is the generated text alone, across the
\* boundaries of the calls' outputs and without the original prefix.
C12_LoopTerminalOnStopOrLength ==
    \A t \in threads :
        (req[t].op = "greedy_until" /\ ~Raised(t)) =>
            /\ SliceTo(local[t].pf, Len(req[t].prefix_text)) = req[t].prefix_text
            /\ Len(Accumulated(t)) = local[t].total_length
            /\ (StopFound(t) \/ LengthReached(t)) <=> Returned(t, "greedy_until")
            /\ pc[t] \in {"greedy_until_loop", "greedy_until_call"} =>
                   ~StopFound(t) /\ ~LengthReached(t)

\* C12 happens: the stop string "a</s>" lies across the prefix and the
\* first output, which does not stop the loop, and then across the outputs
\* of the second and the third call, which does, before max_length
C12_Witness ==
    \E t \in threads :
        /\ Returned(t, "greedy_until")
        /\ PerCall = 1
        /\ local[t].calls = 3
        /\ ~LengthReached(t)
        /\ local[t].ut = << <<"a", EosText>> >>
        /\ req[t].prefix_text = <<"a">>
        /\ Accumulated(t) = <<EosText, "a", EosText>>

\* the texts of a sequence of outputs, decoded one by one and joined
RECURSIVE DecodedOutputs(_)
DecodedOutputs(outputs) ==
    IF outputs = << >> THEN << >>
    ELSE Decode(Head(outputs)) \o DecodedOutputs(Tail(outputs))

\* C13: in every iteration of the loop of greedy_until the batch is built
\* from the current prefix, and the current prefix is the original prefix
\* followed by the decoded outputs of all earlier iterations of the pair, in
\* order and uncut; of a prefix of more than input_length tokens the batch
\* holds the last input_length tokens, and a shorter prefix is padded on the
\* left, with attention 0 on the padding and 1 on the tokens.
C13_BatchFromGrownPrefix ==
    \A t \in threads :
        req[t].op = "greedy_until" =>
            LET l == local[t]
                I == FLAGS.input_length
                toks == Encode(l.pf).input_ids
                n == Len(toks)
            IN  /\ l.pf = req[t].prefix_text \o DecodedOutputs(l.outputs)
                /\ Len(l.outputs) = CompletedCalls(t)
                /\ pc[t] = "greedy_until_call" =>
                       /\ Len(l.batch.input_tokens) = I
                       /\ Len(l.batch.attention_mask) = I
                       /\ n >= I =>
                              /\ l.batch.input_tokens = SubSeq(toks, n - I + 1, n)
                              /\ l.batch.attention_mask = Full(I, 1)
                       /\ n < I =>
                              /\ l.batch.input_tokens =
                                     Full(I - n, pad_token_id) \o toks
                              /\ l.batch.attention_mask =
                                     Full(I - n, 0) \o Full(n, 1)

\* C13 happens: the third call of a pair, whose prefix has grown by two
\* different outputs beyond input_length, so that its oldest tokens are
\* dropped, after a first call with a prefix short enough to be padded
C13_Witness ==
    \E t \in threads :
        /\ pc[t] = "greedy_until_call"
        /\ local[t].calls = 3
        /\ req[t].prefix_text = <<"a">>
        /\ FLAGS.input_length = 2
        /\ local[t].outputs = << <<eos_token_id>>, <<3>> >>
        /\ local[t].batch.input_tokens = <<eos_token_id, 3>>

\* C14: every batch handed to an executor has the executor's fixed width,
\* whatever the length of the input: the batch of loglikelihood and every
\* window of loglikelihood_rolling (the right-aligned last window and the
\* window of a sequence shorter than seq_length included) are seq_length
\* wide in input_tokens, output_tokens, input_mask and output_mask, and
\* every batch of generate and of greedy_until is input_length wide in
\* input_tokens and attention_mask.
C14_BatchesHaveFixedWidth ==
    \A t \in threads :
        LET b == local[t].batch
        IN  /\ pc[t] \in {"loglikelihood", "rolling_call"} =>
                   /\ b.kind = "score"
                   /\ Len(b.input_tokens) = FLAGS.seq_length
                   /\ Len(b.output_tokens) = FLAGS.seq_length
                   /\ Len(b.input_mask) = FLAGS.seq_length
                   /\ Len(b.output_mask) = FLAGS.seq_length
            /\ pc[t] \in {"generate", "greedy_until_call"} =>
                   /\ b.kind = "generate"
                   /\ Len(b.input_tokens) = FLAGS.input_length
                   /\ Len(b.attention_mask) = FLAGS.input_length
            /\ pc[t] = "rolling_window" =>
                   local[t].arr.total_seq_length >= FLAGS.seq_length

\* C14 happens: the window of a sequence shorter than seq_length, padded up
\* to the width, is with the executor
C14_Witness ==
    \E t \in threads :
        /\ pc[t] = "rolling_call"
        /\ req[t].longest = Len(req[t].text)
        /\ Len(req[t].text) = 1
        /\ FLAGS.seq_length = 3
        /\ Len(local[t].batch.output_tokens) = 3
        /\ local[t].batch.output_mask = <<1, 0, 0>>

\* C15: loglikelihood_rolling combines its windows by sum and logical AND:
\* after every window the running loglikelihood is the sum of the windows
\* scored so far and the running flag is true exactly if each of them was
\* greedy, so that one non-greedy window keeps the flag false whatever the
\* later windows report; what is returned are these totals over all windows.
C15_SumAndLogicalAnd ==
    \A t \in threads :
        req[t].op = "loglikelihood_rolling" =>
            LET l == local[t]
                n == Len(l.results)
            IN  /\ n = CompletedCalls(t)
                /\ l.total_loglikelihood =
                       SumSeq([k \in 1..n |-> l.results[k].loglikelihood])
                /\ l.total_is_greedy <=> \A k \in 1..n : l.results[k].is_greedy
                /\ Returned(t, "loglikelihood_rolling") =>
                       /\ n = Ceil(l.arr.total_seq_length, FLAGS.seq_length)
                       /\ ret[t].loglikelihood = l.total_loglikelihood
                       /\ ret[t].is_greedy = l.total_is_greedy

\* C15 happens: three windows, the second one alone not greedy, and false
\* is returned although the last window was greedy again
C15_Witness ==
    \E t \in threads :
        /\ Returned(t, "loglikelihood_rolling")
        /\ Len(local[t].results) = 3
        /\ local[t].results[1].is_greedy
        /\ ~local[t].results[2].is_greedy
        /\ local[t].results[3].is_greedy
        /\ ret[t].loglikelihood = -2
        /\ ~ret[t].is_greedy

\* the RNG state after n executor calls have returned their successor
RECURSIVE Advanced(_, _)
Advanced(rng, n) == IF n = 0 THEN rng ELSE NextRng(Advanced(rng, n - 1))

\* C16: in a serialized execution sharded_rng is advanced exactly once per
\* executor call and nowhere else: after any sequence of requests it has
\* been replaced as often as executor calls have returned (a call that
\* raises returns nothing), each replacement is the successor of the state
\* before it, and the calls are one per loglikelihood, one per generate,
\* one per window of loglikelihood_rolling and one per iteration of
\* greedy_until, deterministic scoring and greedy generation included.
C16_RngAdvancesOncePerCall ==
    /\ Len(writes) = ReturnedCalls
    /\ sharded_rng = Advanced(NextRng(Seed), ReturnedCalls)
    /\ \A k \in 1..Len(writes) : writes[k] = Advanced(NextRng(Seed), k)
    /\ \A t \in threads :
        /\ Len(reads) >= local[t].calls
        /\ InExecutorCall(t) => reads[Len(reads)] = sharded_rng
        /\ Returned(t, "loglikelihood") => local[t].calls = 1
        /\ Returned(t, "generate") => local[t].calls = 1
        /\ Returned(t, "loglikelihood_rolling") =>
               /\ local[t].calls = Len(local[t].results)
               /\ local[t].calls =
                      Ceil(local[t].arr.total_seq_length, FLAGS.seq_length)
        /\ Returned(t, "greedy_until") =>
               /\ local[t].calls = Len(local[t].outputs)
               /\ local[t].calls =
                      Ceil(local[t].total_length, PerCall)

\* C16 happens: a loglikelihood_rolling of two windows and then a
\* greedy_until of two iterations have returned, and sharded_rng has been
\* replaced four times
C16_Witness ==
    \E t \in threads :
        /\ Returned(t, "greedy_until")
        /\ local[t].calls = 2
        /\ raised = 0
        /\ Len(reads) = 4
        /\ Len(writes) = 4
        /\ sharded_rng = Seed + 5

\* the positions of the batch of loglikelihood that hold a token of the
\* continuation: after the prefix region, before the padding
ContinuationPositions(t) ==
    {k \in 1..FLAGS.seq_length :
        /\ k > FLAGS.input_length
        /\ k - FLAGS.input_length <= Len(req[t].text)}

\* C17: in the batch of loglikelihood output_mask is 0 on the first
\* input_length positions and is the continuation's attention mask on the
\* other seq_length - input_length positions (1 on its tokens, 0 on its
\* padding), so that whatever the model predicts, only the continuation's
\* tokens count in the loglikelihood and in the greedy flag.
C17_OutputMaskIsContinuationMask ==
    \A t \in threads :
        pc[t] = "loglikelihood" =>
            LET b == local[t].batch
                I == FLAGS.input_length
                S == FLAGS.seq_length
            IN  /\ Len(b.output_mask) = S
                /\ \A k \in 1..I : b.output_mask[k] = 0
                /\ \A k \in 1..(S - I) :
                       /\ b.output_mask[I + k] =
                              RightTokenizer(req[t].text, S - I).attention_mask[k]
                       /\ b.output_mask[I + k] = 1 <=> I + k \in ContinuationPositions(t)
                       /\ b.output_mask[I + k] \in {0, 1}
                /\ \A hit \in SUBSET (1..S) :
                       LET res == ForwardLoglikelihood(local[t].rng, b, hit)
                       IN  /\ res.loglikelihood =
                                  -Cardinality(ContinuationPositions(t) \ hit)
                           /\ res.is_greedy <=> ContinuationPositions(t) \subseteq hit

\* C17 happens: a prefix that fills the prefix region and a continuation
\* shorter than its region, so that the mask is 0 on the prefix's token,
\* 1 on the continuation's token and 0 on the padding
C17_Witness ==
    \E t \in threads :
        /\ pc[t] = "loglikelihood"
        /\ FLAGS.input_length = 1
        /\ FLAGS.seq_length = 3
        /\ req[t].prefix_text = <<"a">>
        /\ req[t].text = <<EosText>>
        /\ local[t].batch.input_mask[2] = 1
        /\ local[t].batch.output_mask = <<0, 1, 0>>

\* C18: loglikelihood_rolling on an empty token sequence gives the
\* degenerate aggregate: every window it hands over has an output_mask of
\* zeros only, and whatever the model predicts it returns a loglikelihood
\* of zero and a greedy flag that is true.
C18_EmptySequenceScoresZero ==
    \A t \in threads :
        (req[t].op = "loglikelihood_rolling" /\ req[t].text = << >>) =>
            /\ SumSeq(local[t].arr.attention_mask) = 0
            /\ pc[t] = "rolling_call" =>
                   local[t].batch.output_mask = Full(FLAGS.seq_length, 0)
            /\ local[t].total_loglikelihood = 0
            /\ local[t].total_is_greedy
            /\ \A k \in 1..Len(local[t].results) :
                   /\ local[t].results[k].loglikelihood = 0
                   /\ local[t].results[k].is_greedy
            /\ Returned(t, "loglikelihood_rolling") =>
                   /\ local[t].calls >= 1
                   /\ ret[t].loglikelihood = 0
                   /\ ret[t].is_greedy

\* C18 happens: the empty sequence, alone in its batch, has been scored
\* with one window of padding
C18_Witness ==
    \E t \in threads :
        /\ Returned(t, "loglikelihood_rolling")
        /\ req[t].text = << >>
        /\ req[t].longest = 0
        /\ local[t].calls = 1
        /\ local[t].batch.output_tokens = Full(FLAGS.seq_length, pad_token_id)
        /\ ret[t] = [kind |-> "score", loglikelihood |-> 0, is_greedy |-> TRUE]

\* C19: whatever the executor generates, the text greedy_until returns for
\* a pair whose stop strings are all non-empty contains none of the pair's
\* stop strings as a substring.
C19_ReturnedTextHasNoStopString ==
    \A t \in threads :
        (Returned(t, "greedy_until")
         /\ \A k \in 1..Len(local[t].ut) : local[t].ut[k] # << >>) =>
            /\ ret[t].text = local[t].total_generated
            /\ \A k \in 1..Len(local[t].ut) :
                   ~Contains(local[t].ut[k], ret[t].text)

\* C19 happens: both stop strings of the list occur in the generated text,
\* overlapping, and what is returned is the non-empty text before the first
\* of the list
C19_Witness ==
    \E t \in threads :
        /\ Returned(t, "greedy_until")
        /\ local[t].ut = << <<"a", EosText>>, <<EosText, "a">> >>
        /\ Accumulated(t) = <<"a", "a", EosText, "a">>
        /\ ret[t].text = <<"a">>

====
